---- MODULE Spec2Model ----
(***************************************************************************)
(* Model of fetch_wb_acceptance_coefficients.py: the configuration reads,  *)
(* the fetch of the WB acceptance coefficients, the row normalizer and the *)
(* delete-then-batch-insert reload of the destination table.               *)
(*                                                                         *)
(* Python values are records [t |-> type tag, v |-> payload]; the payload  *)
(* is always a tuple of one-character strings (the text of a str, the      *)
(* decimal digits of an int, the decimal text of a float, <<"T">>/<<"F">>  *)
(* of a bool, one "x" per element of a list).                              *)
(***************************************************************************)
EXTENDS Integers, Sequences, FiniteSets, Bags, TLC

\* ------------------------------------------------------------------ bounds
\* longest list of raw records a fetch returns in the pipeline specification
MaxRaw == 3
\* longest list of raw records a fetch returns when two invocations race
MaxRawConc == 3
\* longest list handed to normalize_rows in the normalizer specification
MaxNormLen == 2
\* invocations of the script, one after the other, in the pipeline specification
MaxRuns == 2
\* rows per insert call.  The source sets 1000 (line 166); the model scales it
\* down so that the lists above span several batches.
BATCH_SIZE == 2

\* ------------------------------------------------------- python values
None == [t |-> "none", v |-> <<>>]
\* the key is absent from the raw record
Missing == [t |-> "missing", v |-> <<>>]
PyStr(s) == [t |-> "str", v |-> s]
PyInt(s) == [t |-> "int", v |-> s]
PyFloat(s) == [t |-> "float", v |-> s]
PyBool(b) == [t |-> "bool", v |-> IF b THEN <<"T">> ELSE <<"F">>]
PyList(s) == [t |-> "list", v |-> s]

Digits == {"0", "1", "2", "3", "4", "5", "6", "7", "8", "9"}
DigitVal(c) ==
    CASE c = "0" -> 0 [] c = "1" -> 1 [] c = "2" -> 2 [] c = "3" -> 3
      [] c = "4" -> 4 [] c = "5" -> 5 [] c = "6" -> 6 [] c = "7" -> 7
      [] c = "8" -> 8 [] c = "9" -> 9
DigitChar(n) ==
    CASE n = 0 -> "0" [] n = 1 -> "1" [] n = 2 -> "2" [] n = 3 -> "3"
      [] n = 4 -> "4" [] n = 5 -> "5" [] n = 6 -> "6" [] n = 7 -> "7"
      [] n = 8 -> "8" [] n = 9 -> "9"

AllDigits(s) == \A i \in 1..Len(s) : s[i] \in Digits

RECURSIVE ToNat(_)
\* int() of a non-empty run of decimal digits
ToNat(s) ==
    IF s = <<>> THEN 0
    ELSE 10 * ToNat(SubSeq(s, 1, Len(s) - 1)) + DigitVal(s[Len(s)])

\* dict.get(key): the value, or None when the key is absent
Get(row, key) == IF row[key] = Missing THEN None ELSE row[key]
\* dict.get(key, default)
GetDefault(row, key, default) == IF row[key] = Missing THEN default ELSE row[key]

\* bool(value): the truth value python gives an object
Truthy(value) ==
    CASE value.t = "none" -> FALSE
      [] value.t = "missing" -> FALSE
      [] value.t = "bool" -> value.v = <<"T">>
      [] value.t = "int" -> \E i \in 1..Len(value.v) : value.v[i] # "0"
      [] value.t = "float" -> \E i \in 1..Len(value.v) : value.v[i] \notin {"0", "."}
      [] value.t = "str" -> value.v # <<>>
      [] value.t = "list" -> value.v # <<>>

RECURSIVE LStrip(_)
LStrip(s) == IF s # <<>> /\ Head(s) = " " THEN LStrip(Tail(s)) ELSE s
RECURSIVE RStrip(_)
RStrip(s) ==
    IF s # <<>> /\ s[Len(s)] = " " THEN RStrip(SubSeq(s, 1, Len(s) - 1)) ELSE s
\* str.strip()
Strip(s) == RStrip(LStrip(s))

RECURSIVE Replace(_, _, _)
\* str.replace(old, new) for a one-character old
Replace(s, old, new) ==
    IF s = <<>> THEN <<>>
    ELSE (IF Head(s) = old THEN new ELSE <<Head(s)>>) \o Replace(Tail(s), old, new)

RECURSIVE DropLeadingZeros(_)
DropLeadingZeros(s) ==
    IF s # <<>> /\ Head(s) = "0" THEN DropLeadingZeros(Tail(s)) ELSE s
RECURSIVE DropTrailingZeros(_)
DropTrailingZeros(s) ==
    IF s # <<>> /\ s[Len(s)] = "0"
    THEN DropTrailingZeros(SubSeq(s, 1, Len(s) - 1)) ELSE s

\* the float with integer digits ip and fraction digits fp, as python prints it
FloatText(ip, fp) ==
    LET i == DropLeadingZeros(ip)
        f == DropTrailingZeros(fp)
    IN  (IF i = <<>> THEN <<"0">> ELSE i) \o <<".">> \o (IF f = <<>> THEN <<"0">> ELSE f)

DotPositions(s) == {i \in 1..Len(s) : s[i] = "."}

\* float(s) of a text over digits and "."; ok = FALSE stands for ValueError.
\* (signs, exponents, "inf", "nan" and "_" lie outside the modelled alphabet)
ParseFloat(s) ==
    LET dots == DotPositions(s)
        wellFormed == /\ \A i \in 1..Len(s) : s[i] \in Digits \cup {"."}
                      /\ Cardinality(dots) <= 1
                      /\ \E i \in 1..Len(s) : s[i] \in Digits
    IN  IF ~wellFormed THEN [ok |-> FALSE, val |-> None]
        ELSE IF dots = {} THEN [ok |-> TRUE, val |-> PyFloat(FloatText(s, <<>>))]
        ELSE LET d == CHOOSE i \in dots : TRUE
             IN  [ok |-> TRUE,
                  val |-> PyFloat(FloatText(SubSeq(s, 1, d - 1), SubSeq(s, d + 1, Len(s))))]

\* str(value)
Str(value) ==
    CASE value.t = "str" -> value.v
      [] value.t = "list" -> <<"[">> \o value.v \o <<"]">>
      [] OTHER -> value.v

\* float(value) of an int, a float or a bool
FloatOfNumber(value) ==
    CASE value.t = "int" -> PyFloat(FloatText(value.v, <<>>))
      [] value.t = "bool" -> PyFloat(IF value.v = <<"T">> THEN <<"1", ".", "0">> ELSE <<"0", ".", "0">>)
      [] value.t = "float" -> ParseFloat(value.v).val

to_decimal_zero(value) ==
    IF value.t = "none" THEN None
    ELSE IF value.t \in {"int", "float", "bool"} THEN FloatOfNumber(value)
    ELSE LET s == Strip(Str(value))
         IN  IF s = <<>> THEN PyFloat(<<"0", ".", "0">>)
             ELSE LET f == ParseFloat(Replace(s, ",", <<".">>))
                  IN  IF f.ok THEN f.val ELSE None

to_decimal(value) ==
    IF value.t = "none" THEN None
    ELSE IF value.t \in {"int", "float", "bool"} THEN FloatOfNumber(value)
    ELSE LET s == Strip(Str(value))
         IN  IF s = <<>> THEN None
             ELSE LET f == ParseFloat(Replace(s, ",", <<".">>))
                  IN  IF f.ok THEN f.val ELSE None

\* ------------------------------------------------------------- dates
IsLeap(y) == (y % 4 = 0 /\ y % 100 # 0) \/ y % 400 = 0
DaysInMonth(y, m) ==
    IF m = 2 THEN (IF IsLeap(y) THEN 29 ELSE 28)
    ELSE IF m \in {4, 6, 9, 11} THEN 30 ELSE 31

\* the "+HH:MM" / "-HH:MM" offset that may end a timestamp
IsOffset(s) ==
    /\ Len(s) = 6
    /\ s[1] \in {"+", "-"}
    /\ AllDigits(SubSeq(s, 2, 3)) /\ s[4] = ":" /\ AllDigits(SubSeq(s, 5, 6))
    /\ ToNat(SubSeq(s, 2, 3)) < 24 /\ ToNat(SubSeq(s, 5, 6)) < 60

\* the "HH:MM:SS" time of a timestamp, with an optional offset after it
IsTime(s) ==
    /\ Len(s) >= 8
    /\ AllDigits(SubSeq(s, 1, 2)) /\ s[3] = ":" /\ AllDigits(SubSeq(s, 4, 5))
    /\ s[6] = ":" /\ AllDigits(SubSeq(s, 7, 8))
    /\ ToNat(SubSeq(s, 1, 2)) < 24 /\ ToNat(SubSeq(s, 4, 5)) < 60
    /\ ToNat(SubSeq(s, 7, 8)) < 60
    /\ (Len(s) = 8 \/ IsOffset(SubSeq(s, 9, Len(s))))

\* datetime.fromisoformat(s).date() for the forms every python 3.7+ accepts:
\* YYYY-MM-DD, optionally one separator character and HH:MM:SS, optionally an
\* offset.  ok = FALSE stands for ValueError.
fromisoformat(s) ==
    LET shape == /\ Len(s) >= 10
                 /\ AllDigits(SubSeq(s, 1, 4)) /\ s[5] = "-"
                 /\ AllDigits(SubSeq(s, 6, 7)) /\ s[8] = "-"
                 /\ AllDigits(SubSeq(s, 9, 10))
                 /\ (Len(s) = 10 \/ (Len(s) >= 12 /\ IsTime(SubSeq(s, 12, Len(s)))))
        y == ToNat(SubSeq(s, 1, 4))
        m == ToNat(SubSeq(s, 6, 7))
        d == ToNat(SubSeq(s, 9, 10))
    IN  IF shape /\ y >= 1 /\ m \in 1..12 /\ d >= 1 /\ d <= DaysInMonth(y, m)
        THEN [ok |-> TRUE, y |-> y, m |-> m, d |-> d]
        ELSE [ok |-> FALSE, y |-> 0, m |-> 0, d |-> 0]

Pad2(n) == <<DigitChar(n \div 10), DigitChar(n % 10)>>
Pad4(n) == Pad2(n \div 100) \o Pad2(n % 100)
\* date.isoformat()
isoformat(date) == Pad4(date.y) \o <<"-">> \o Pad2(date.m) \o <<"-">> \o Pad2(date.d)

\* ------------------------------------------------------- normalize_rows
RawFields ==
    {"date", "warehouseID", "warehouseName", "boxTypeID", "coefficient",
     "allowUnload", "storageCoef", "deliveryCoef", "deliveryBaseLiter",
     "deliveryAdditionalLiter", "storageBaseLiter", "storageAdditionalLiter",
     "isSortingCenter"}

\* the raw numeric fields and the column each lands in
NumericFields ==
    {<<"coefficient", "coefficient">>, <<"storageCoef", "storage_coef">>,
     <<"deliveryCoef", "delivery_coef">>,
     <<"deliveryBaseLiter", "delivery_base_liter">>,
     <<"deliveryAdditionalLiter", "delivery_additional_liter">>,
     <<"storageBaseLiter", "storage_base_liter">>,
     <<"storageAdditionalLiter", "storage_additional_liter">>}

\* the item built from a raw record whose date parsed to coeff_date
Item(row, coeff_date) ==
    [coeff_date |-> PyStr(isoformat(coeff_date)),
     warehouse_id |-> Get(row, "warehouseID"),
     warehouse_name |-> IF Truthy(Get(row, "warehouseName"))
                        THEN Get(row, "warehouseName") ELSE PyStr(<<>>),
     box_type_id |-> Get(row, "boxTypeID"),
     coefficient |-> to_decimal(Get(row, "coefficient")),
     allow_unload |-> PyBool(Truthy(GetDefault(row, "allowUnload", PyBool(FALSE)))),
     storage_coef |-> to_decimal(Get(row, "storageCoef")),
     delivery_coef |-> to_decimal(Get(row, "deliveryCoef")),
     delivery_base_liter |-> to_decimal(Get(row, "deliveryBaseLiter")),
     delivery_additional_liter |-> to_decimal(Get(row, "deliveryAdditionalLiter")),
     storage_base_liter |-> to_decimal(Get(row, "storageBaseLiter")),
     storage_additional_liter |-> to_decimal(Get(row, "storageAdditionalLiter")),
     is_sorting_center |-> PyBool(Truthy(GetDefault(row, "isSortingCenter", PyBool(FALSE))))]

RECURSIVE NormLoop(_, _)
\* the for loop of normalize_rows over the records still to visit, norm being
\* the list built so far.  raised = TRUE: date_str.replace raised AttributeError
\* (the value is truthy and no str), which nothing in the script catches.
NormLoop(raw, norm) ==
    IF raw = <<>> THEN [raised |-> FALSE, rows |-> norm]
    ELSE LET row == Head(raw)
             date_str == Get(row, "date")
         IN  IF Truthy(date_str)
             THEN IF date_str.t # "str" THEN [raised |-> TRUE, rows |-> <<>>]
                  ELSE LET d == fromisoformat(Replace(date_str.v, "Z", <<"+", "0", "0", ":", "0", "0">>))
                       IN  IF d.ok THEN NormLoop(Tail(raw), Append(norm, Item(row, d)))
                           ELSE NormLoop(Tail(raw), norm)
             ELSE NormLoop(Tail(raw), norm)

normalize_rows(raw_rows) == NormLoop(raw_rows, <<>>)

\* -------------------------------------------------------------- chunked
RECURSIVE chunked_overlap(_, _)
chunked_overlap(iterable, size) ==
    IF iterable = <<>> THEN <<>>
    ELSE IF Len(iterable) <= size + 1 THEN <<iterable>>
    ELSE <<SubSeq(iterable, 1, size + 1)>>
             \o chunked_overlap(SubSeq(iterable, size + 2, Len(iterable)), size)

\* [iterable[i : i + size] for i in range(0, len(iterable), size)]
chunked(iterable, size) ==
    [k \in 1..((Len(iterable) + size - 1) \div size) |->
        SubSeq(iterable, (k - 1) * size + 1,
               IF k * size < Len(iterable) THEN k * size ELSE Len(iterable))]

\* ---------------------------------------------------------------- state
VARIABLES
    procs,         \* the invocations of the script that exist
    table,         \* the destination table: a bag of normalized rows
    table0,        \* table0[p]: the table when invocation p started
    pc,            \* pc[p]: where invocation p stands
    env,           \* env[p]: the process environment of invocation p
    resp_seen,     \* resp_seen[p]: status and kind of the response p received
    raw_rows,      \* raw_rows[p]: what the fetch returned
    rows,          \* rows[p]: what normalize_rows returned
    batch_i,       \* batch_i[p]: the number i of the batch the loop is at
    n_delete,      \* n_delete[p]: delete calls issued
    delete_ok,     \* delete_ok[p]: the delete call returned without error
    insert_sizes,  \* insert_sizes[p]: len(batch) of every insert call issued
    insert_after,  \* insert_after[p]: every insert so far came after a good delete
    exit_code,     \* exit_code[p]: -1 while running, then the exit status
    err,           \* err[p]: what ended the run
    runs,          \* invocations started so far
    n_pc,          \* normalizer specification: "ready", "returned", "raised"
    n_in,          \* normalizer specification: the argument of normalize_rows
    n_out          \* normalizer specification: the list it returned

vars == <<procs, table, table0, pc, env, resp_seen, raw_rows, rows, batch_i, n_delete,
          delete_ok, insert_sizes, insert_after, exit_code, err, runs,
          n_pc, n_in, n_out>>

pipeVars == <<procs, table, table0, pc, env, resp_seen, raw_rows, rows, batch_i, n_delete,
              delete_ok, insert_sizes, insert_after, exit_code, err, runs>>
normVars == <<n_pc, n_in, n_out>>

Range(s) == {s[i] : i \in 1..Len(s)}
\* the rows of a list, as a bag
BagOfSeq(s) == [r \in Range(s) |-> Cardinality({i \in 1..Len(s) : s[i] = r})]
\* all lists over S of length lo..hi
ListsOf(S, lo, hi) == UNION {[1..n -> S] : n \in lo..hi}

\* ---------------------------------------------------------- environment
\* os.getenv gives None for a variable that is not set
EnvOk ==
    [WB_SUPPLIES_TOKEN |-> PyStr(<<"t">>), SUPABASE_URL |-> PyStr(<<"u">>),
     SUPABASE_SERVICE_KEY |-> PyStr(<<"k">>), SUPABASE_SCHEMA |-> None,
     SUPABASE_TABLE |-> None, WB_WAREHOUSE_IDS |-> None, BATCH_SIZE |-> None]
EnvSamples ==
    {EnvOk,
     [EnvOk EXCEPT !.BATCH_SIZE = PyStr(<<"1">>), !.WB_WAREHOUSE_IDS = PyStr(<<"5", "0", "7">>)],
     [EnvOk EXCEPT !.WB_SUPPLIES_TOKEN = PyStr(<<" ">>)],
     [EnvOk EXCEPT !.SUPABASE_SERVICE_KEY = None]}

\* get_env: exit = TRUE stands for sys.exit(1)
get_env(e, name, required, default) ==
    LET value == IF e[name] = None THEN default ELSE e[name]
    IN  [exit |-> required /\ (value = None \/ Strip(value.v) = <<>>), value |-> value]

\* lines 127-132 of main: some required setting is missing or blank
ConfigExits(e) ==
    \/ get_env(e, "WB_SUPPLIES_TOKEN", TRUE, None).exit
    \/ get_env(e, "SUPABASE_URL", TRUE, None).exit
    \/ get_env(e, "SUPABASE_SERVICE_KEY", TRUE, None).exit
    \/ get_env(e, "SUPABASE_SCHEMA", FALSE, PyStr(<<"p">>)).exit
    \/ get_env(e, "SUPABASE_TABLE", FALSE, PyStr(<<"w">>)).exit
    \/ get_env(e, "WB_WAREHOUSE_IDS", FALSE, None).exit

\* ---------------------------------------------------------- raw records
Chars(ymd) == ymd \o <<"T", "0", "0", ":", "0", "0", ":", "0", "0", "Z">>
Date2024 == <<"2", "0", "2", "4", "-", "0", "4", "-", "1", "1">>
Date1899 == <<"1", "8", "9", "9", "-", "1", "2", "-", "3", "1">>
DateMonth13 == <<"2", "0", "2", "4", "-", "1", "3", "-", "0", "1">>

RawBase ==
    [f \in RawFields |->
        CASE f = "date" -> PyStr(Chars(Date2024))
          [] f = "warehouseID" -> PyInt(<<"5", "0", "7">>)
          [] f = "warehouseName" -> PyStr(<<"A">>)
          [] f = "boxTypeID" -> PyInt(<<"2">>)
          [] f = "coefficient" -> PyInt(<<"0">>)
          [] f = "allowUnload" -> PyBool(TRUE)
          [] f = "storageCoef" -> PyStr(<<"1", "2", ",", "5">>)
          [] f = "deliveryCoef" -> PyStr(<<"1", "2", ".", "5">>)
          [] f = "deliveryBaseLiter" -> PyStr(<<>>)
          [] f = "deliveryAdditionalLiter" -> None
          [] f = "storageBaseLiter" -> PyStr(<<"1">>)
          [] f = "isSortingCenter" -> Missing
          [] OTHER -> Missing]
RawOther == [RawBase EXCEPT !["warehouseID"] = PyInt(<<"1", "1", "7">>), !["warehouseName"] = None]
RawOld == [RawBase EXCEPT !["date"] = PyStr(Chars(Date1899))]
RawBadDate == [RawBase EXCEPT !["date"] = PyStr(Chars(DateMonth13))]
RawIntDate == [RawBase EXCEPT !["date"] = PyInt(<<"2", "0", "2", "4">>)]

\* the records a fetched list is made of, in the pipeline specification
RawSamples == {RawBase, RawOld, RawBadDate, RawIntDate}
\* ... and when two invocations race
RawSamplesConc == {RawBase, RawOther}

\* ---------------------------------------------------------------- fetch
\* what requests.get can come back with: kind says what resp.json() makes of
\* the body ("list", "object", "notjson"), or that the request itself raised
Failures ==
    {[status |-> 500, kind |-> "list", data |-> <<RawBase>>],
     [status |-> 200, kind |-> "object", data |-> <<>>],
     [status |-> 200, kind |-> "notjson", data |-> <<>>],
     [status |-> 0, kind |-> "raised", data |-> <<>>]}
Responses ==
    Failures \cup {[status |-> 200, kind |-> "list", data |-> d] : d \in ListsOf(RawSamples, 0, MaxRaw)}
ResponsesConc ==
    {[status |-> 200, kind |-> "object", data |-> <<>>]}
      \cup {[status |-> 200, kind |-> "list", data |-> d] : d \in ListsOf(RawSamplesConc, 1, MaxRawConc)}

fetch_no_status_check(resp) ==
    IF resp.kind = "raised" THEN [exit |-> TRUE, err |-> "RequestRaised", data |-> <<>>]
    ELSE IF resp.kind = "notjson" THEN [exit |-> TRUE, err |-> "NotJson", data |-> <<>>]
    ELSE IF resp.kind # "list" THEN [exit |-> TRUE, err |-> "NotList", data |-> <<>>]
    ELSE [exit |-> FALSE, err |-> "", data |-> resp.data]

\* fetch_acceptance_coefficients: exit = TRUE stands for sys.exit(1), or for the
\* exception of requests.get leaving main
fetch_acceptance_coefficients(resp) ==
    IF resp.kind = "raised" THEN [exit |-> TRUE, err |-> "RequestRaised", data |-> <<>>]
    ELSE IF resp.status # 200 THEN [exit |-> TRUE, err |-> "Status", data |-> <<>>]
    ELSE IF resp.kind = "notjson" THEN [exit |-> TRUE, err |-> "NotJson", data |-> <<>>]
    ELSE IF resp.kind # "list" THEN [exit |-> TRUE, err |-> "NotList", data |-> <<>>]
    ELSE [exit |-> FALSE, err |-> "", data |-> resp.data]

\* -------------------------------------------------------------- storage
\* coeff_date as the number YYYYMMDD, the order the date column compares in
DateKey(coeff_date) ==
    ToNat(SubSeq(coeff_date.v, 1, 4)) * 10000
      + ToNat(SubSeq(coeff_date.v, 6, 7)) * 100 + ToNat(SubSeq(coeff_date.v, 9, 10))

\* .gte("coeff_date", "1900-01-01")
DeleteFilter(row) ==
    DateKey(row.coeff_date) >= DateKey(PyStr(<<"1", "9", "0", "0", "-", "0", "1", "-", "0", "1">>))

\* .delete().gte(...).execute() on table t: the rows the filter misses stay
delete(t) ==
    [r \in {x \in DOMAIN t : ~DeleteFilter(x)} |-> t[r]]

insert_twice(t, batch) == t (+) BagOfSeq(batch) (+) BagOfSeq(batch)

\* .insert(batch).execute() on table t
insert(t, batch) == t (+) BagOfSeq(batch)

\* ----------------------------------------------------------------- main
Terminal == {"Done", "NothingToSync", "Failed"}
\* no response has arrived yet
NoResponse == [status |-> 0, kind |-> "none"]

\* the run of p ends: its exit status and what ended it
Exit(p, state, code, why) ==
    /\ pc' = [pc EXCEPT ![p] = state]
    /\ exit_code' = [exit_code EXCEPT ![p] = code]
    /\ err' = [err EXCEPT ![p] = why]

\* lines 127-132: the settings are read; a missing required one ends the run
Start(p) ==
    /\ pc[p] = "Idle"
    /\ \E e \in EnvSamples :
         /\ env' = [env EXCEPT ![p] = e]
         /\ IF ConfigExits(e)
            THEN Exit(p, "Failed", 1, "ConfigMissing")
            ELSE /\ pc' = [pc EXCEPT ![p] = "Fetching"]
                 /\ UNCHANGED <<exit_code, err>>
    /\ UNCHANGED <<procs, table, table0, resp_seen, raw_rows, rows, batch_i,
                   n_delete, delete_ok, insert_sizes, insert_after, runs>>
    /\ UNCHANGED normVars

\* "if not raw_rows" and "if not rows" (lines 136, 142): nothing to sync
NothingToSync_never(lst) == FALSE

NothingToSync(lst) == lst = <<>>

\* lines 135-147: the response resp arrives; main checks it, normalizes the
\* rows and, with rows to write, goes on to the delete
FetchWith(p, resp) ==
    LET f == fetch_acceptance_coefficients(resp)
        n == normalize_rows(f.data)
    IN  /\ pc[p] = "Fetching"
        /\ resp_seen' = [resp_seen EXCEPT ![p] = [status |-> resp.status, kind |-> resp.kind]]
        /\ IF f.exit
           THEN /\ Exit(p, "Failed", 1, f.err)
                /\ UNCHANGED <<raw_rows, rows>>
           ELSE IF NothingToSync(f.data)
           THEN /\ Exit(p, "NothingToSync", 0, "")
                /\ raw_rows' = [raw_rows EXCEPT ![p] = f.data]
                /\ UNCHANGED rows
           ELSE IF n.raised
           THEN /\ Exit(p, "Failed", 1, "AttributeError")
                /\ raw_rows' = [raw_rows EXCEPT ![p] = f.data]
                /\ UNCHANGED rows
           ELSE IF NothingToSync(n.rows)
           THEN /\ Exit(p, "NothingToSync", 0, "")
                /\ raw_rows' = [raw_rows EXCEPT ![p] = f.data]
                /\ rows' = [rows EXCEPT ![p] = n.rows]
           ELSE /\ pc' = [pc EXCEPT ![p] = "Deleting"]
                /\ raw_rows' = [raw_rows EXCEPT ![p] = f.data]
                /\ rows' = [rows EXCEPT ![p] = n.rows]
                /\ UNCHANGED <<exit_code, err>>
        /\ UNCHANGED <<procs, table, table0, env, batch_i, n_delete, delete_ok,
                       insert_sizes, insert_after, runs>>
        /\ UNCHANGED normVars

Fetch(p) == \E resp \in Responses : FetchWith(p, resp)
FetchConc(p) == \E resp \in ResponsesConc : FetchWith(p, resp)

DeleteOutcome_swallow(ok, nbatches) ==
    IF ok \/ nbatches > 0
    THEN [pc |-> "Inserting", code |-> -1, err |-> IF ok THEN "" ELSE "StorageDeleteFailed"]
    ELSE [pc |-> "Done", code |-> 0, err |-> "StorageDeleteFailed"]

\* where main stands after the delete call (lines 152-167): execute() raised
\* (ok = FALSE) and sys.exit(1) ends the run, or the insert loop starts; a loop
\* over no batches is over at once
DeleteOutcome(ok, nbatches) ==
    IF ~ok THEN [pc |-> "Failed", code |-> 1, err |-> "StorageDeleteFailed"]
    ELSE IF nbatches > 0 THEN [pc |-> "Inserting", code |-> -1, err |-> ""]
    ELSE [pc |-> "Done", code |-> 0, err |-> ""]

\* lines 151-163: the delete call.  ok = FALSE: execute() raised and the table
\* is as it was
Delete(p) ==
    /\ pc[p] = "Deleting"
    /\ n_delete' = [n_delete EXCEPT ![p] = @ + 1]
    /\ \E ok \in BOOLEAN :
         LET o == DeleteOutcome(ok, Len(chunked(rows[p], BATCH_SIZE)))
         IN  /\ table' = IF ok THEN delete(table) ELSE table
             /\ delete_ok' = [delete_ok EXCEPT ![p] = ok]
             /\ batch_i' = [batch_i EXCEPT ![p] = IF o.pc = "Inserting" THEN 1 ELSE @]
             /\ Exit(p, o.pc, o.code, o.err)
    /\ UNCHANGED <<procs, table0, env, resp_seen, raw_rows, rows, insert_sizes,
                   insert_after, runs>>
    /\ UNCHANGED normVars

\* lines 166-175: one turn of the insert loop, batch number batch_i[p].
\* ok = FALSE: execute() raised, the batch is not in the table, and the run ends
\* with status 1.  After the last batch the run is done.
Insert(p) ==
    LET batches == chunked(rows[p], BATCH_SIZE)
        batch == batches[batch_i[p]]
    IN  /\ pc[p] = "Inserting"
        /\ insert_sizes' = [insert_sizes EXCEPT ![p] = Append(@, Len(batch))]
        /\ insert_after' = [insert_after EXCEPT ![p] = @ /\ delete_ok[p]]
        /\ \E ok \in BOOLEAN :
             IF ok
             THEN /\ table' = insert(table, batch)
                  /\ IF batch_i[p] = Len(batches)
                     THEN /\ Exit(p, "Done", 0, "")
                          /\ UNCHANGED batch_i
                     ELSE /\ batch_i' = [batch_i EXCEPT ![p] = @ + 1]
                          /\ UNCHANGED <<pc, exit_code, err>>
             ELSE /\ Exit(p, "Failed", 1, "StorageInsertFailed")
                  /\ UNCHANGED <<table, batch_i>>
        /\ UNCHANGED <<procs, table0, env, resp_seen, raw_rows, rows, n_delete,
                       delete_ok, runs>>
        /\ UNCHANGED normVars

\* the next scheduled invocation of the script, after the last one ended
NewRun(p) ==
    /\ pc[p] \in Terminal
    /\ runs < MaxRuns
    /\ runs' = runs + 1
    /\ table0' = [table0 EXCEPT ![p] = table]
    /\ pc' = [pc EXCEPT ![p] = "Idle"]
    /\ env' = [env EXCEPT ![p] = EnvOk]
    /\ resp_seen' = [resp_seen EXCEPT ![p] = NoResponse]
    /\ raw_rows' = [raw_rows EXCEPT ![p] = <<>>]
    /\ rows' = [rows EXCEPT ![p] = <<>>]
    /\ batch_i' = [batch_i EXCEPT ![p] = 0]
    /\ n_delete' = [n_delete EXCEPT ![p] = 0]
    /\ delete_ok' = [delete_ok EXCEPT ![p] = FALSE]
    /\ insert_sizes' = [insert_sizes EXCEPT ![p] = <<>>]
    /\ insert_after' = [insert_after EXCEPT ![p] = TRUE]
    /\ exit_code' = [exit_code EXCEPT ![p] = -1]
    /\ err' = [err EXCEPT ![p] = ""]
    /\ UNCHANGED <<procs, table>>
    /\ UNCHANGED normVars

\* ------------------------------------------------------- specifications
InitPipe(P) ==
    /\ procs = P
    /\ table = EmptyBag
    /\ table0 = [p \in P |-> EmptyBag]
    /\ pc = [p \in P |-> "Idle"]
    /\ env = [p \in P |-> EnvOk]
    /\ resp_seen = [p \in P |-> NoResponse]
    /\ raw_rows = [p \in P |-> <<>>]
    /\ rows = [p \in P |-> <<>>]
    /\ batch_i = [p \in P |-> 0]
    /\ n_delete = [p \in P |-> 0]
    /\ delete_ok = [p \in P |-> FALSE]
    /\ insert_sizes = [p \in P |-> <<>>]
    /\ insert_after = [p \in P |-> TRUE]
    /\ exit_code = [p \in P |-> -1]
    /\ err = [p \in P |-> ""]
    /\ runs = Cardinality(P)

\* one invocation at a time, the table empty before the first
Init ==
    /\ InitPipe({1})
    /\ n_pc = "off" /\ n_in = <<>> /\ n_out = <<>>

StartStep == \E p \in procs : Start(p)
FetchStep == \E p \in procs : Fetch(p)
FetchConcStep == \E p \in procs : FetchConc(p)
DeleteStep == \E p \in procs : Delete(p)
InsertStep == \E p \in procs : Insert(p)
NewRunStep == \E p \in procs : NewRun(p)

Next ==
    \/ StartStep
    \/ FetchStep
    \/ DeleteStep
    \/ InsertStep
    \/ NewRunStep

Spec == Init /\ [][Next]_vars

\* two invocations at the same time against the one table
InitConc ==
    /\ InitPipe({1, 2})
    /\ n_pc = "off" /\ n_in = <<>> /\ n_out = <<>>

NextConc ==
    \/ StartStep
    \/ FetchConcStep
    \/ DeleteStep
    \/ InsertStep

SpecConc == InitConc /\ [][NextConc]_vars

\* ------------------------------------------- the normalizer on its own
\* values a raw record's date is given
DateVals ==
    {Missing, None, PyStr(<<>>), PyStr(<<"a", "b", "c">>), PyStr(Chars(DateMonth13)),
     PyInt(<<"0">>), PyInt(<<"2", "0", "2", "4">>), PyBool(TRUE), PyList(<<"x">>),
     PyStr(Chars(Date2024)), PyStr(Date2024), PyStr(Chars(Date1899))}
\* values a raw record's numeric field is given
NumVals ==
    {Missing, None, PyStr(<<>>), PyStr(<<" ">>), PyStr(<<"1", "2", ",", "5">>),
     PyStr(<<"1", "2", ".", "5">>), PyStr(<<"0">>), PyStr(<<"x">>),
     PyStr(<<"1", ",", "2", ",", "3">>), PyInt(<<"0">>), PyInt(<<"3">>),
     PyFloat(<<"1", ".", "5">>), PyBool(TRUE), PyList(<<>>)}
DateRecords == {[RawBase EXCEPT !["date"] = d] : d \in DateVals}
NumRecords == {[RawBase EXCEPT ![f[1]] = a] : f \in NumericFields, a \in NumVals}

InitNorm ==
    /\ InitPipe({})
    /\ n_pc = "ready"
    /\ n_out = <<>>
    /\ n_in \in ListsOf(DateRecords, 0, MaxNormLen)
                  \cup {<<r>> \o l : r \in NumRecords, l \in ListsOf(DateRecords, 0, 1)}

\* one call normalize_rows(n_in)
NormCall ==
    LET n == normalize_rows(n_in)
    IN  /\ n_pc = "ready"
        /\ n_pc' = IF n.raised THEN "raised" ELSE "returned"
        /\ n_out' = n.rows
        /\ UNCHANGED n_in
        /\ UNCHANGED pipeVars

NextNorm == NormCall

SpecNorm == InitNorm /\ [][NextNorm]_vars

\* ================================================================ claims
Ceil(n, b) == (n + b - 1) \div b
RECURSIVE Sum(_)
Sum(s) == IF s = <<>> THEN 0 ELSE Head(s) + Sum(Tail(s))
RECURSIVE Flatten(_)
Flatten(ss) == IF ss = <<>> THEN <<>> ELSE Head(ss) \o Flatten(Tail(ss))
\* the rows of batches from..to of invocation p, as a bag
BatchRows(p, from, to) ==
    BagOfSeq(Flatten(SubSeq(chunked(rows[p], BATCH_SIZE), from, to)))
NBatches(p) == Len(chunked(rows[p], BATCH_SIZE))
\* the response p received was a success carrying a list
GoodResponse(p) == resp_seen[p].status = 200 /\ resp_seen[p].kind = "list"
Fetched(p) == pc[p] \notin {"Idle", "Fetching"}
NoStorageCall(p) == n_delete[p] = 0 /\ insert_sizes[p] = <<>>

\* C1: a run that ends Done leaves the table holding exactly its normalized
\* rows, each once per normalized row, and no row the table held before,
\* whatever the table held before.
C1_FullReload ==
    \A p \in procs : pc[p] = "Done" => table = BagOfSeq(rows[p])

\* C2: a run issues at most one delete, every insert it issues comes after its
\* delete returned without error, and a run whose delete raised is Failed with
\* status 1 and has issued no insert.
C2_StorageCallOrder ==
    \A p \in procs :
        /\ n_delete[p] <= 1
        /\ insert_after[p]
        /\ insert_sizes[p] # <<>> => n_delete[p] = 1 /\ delete_ok[p]
        /\ (n_delete[p] = 1 /\ ~delete_ok[p]) =>
              pc[p] = "Failed" /\ exit_code[p] = 1 /\ insert_sizes[p] = <<>>
C2_Witness ==
    \E p \in procs : n_delete[p] = 1 /\ ~delete_ok[p] /\ pc[p] = "Failed"

\* C3: a run of N >= 1 normalized rows in which no insert fails issues exactly
\* ceil(N/B) insert calls, each of 1..B rows, their sizes summing to N.
C3_Batching ==
    \A p \in procs :
        pc[p] = "Done" =>
            /\ Len(rows[p]) >= 1
            /\ Len(insert_sizes[p]) = Ceil(Len(rows[p]), BATCH_SIZE)
            /\ \A k \in 1..Len(insert_sizes[p]) : insert_sizes[p][k] \in 1..BATCH_SIZE
            /\ Sum(insert_sizes[p]) = Len(rows[p])
C3_Witness ==
    \E p \in procs :
        /\ pc[p] = "Done"
        /\ Len(insert_sizes[p]) >= 2
        /\ insert_sizes[p][Len(insert_sizes[p])] < BATCH_SIZE

\* C4: a response with a non-success status, or whose body is no list, ends
\* the run with a non-zero status, no delete and no insert issued, the table
\* as it was when the run started.
C4_FetchFailureStops ==
    \A p \in procs :
        (Fetched(p) /\ resp_seen[p].kind \in {"list", "object", "notjson"} /\ ~GoodResponse(p)) =>
            /\ pc[p] = "Failed"
            /\ exit_code[p] >= 1
            /\ NoStorageCall(p)
            /\ table = table0[p]
C4_Witness ==
    \E p \in procs :
        /\ Fetched(p) /\ resp_seen[p].status = 200 /\ resp_seen[p].kind = "object"
        /\ table0[p] # EmptyBag
C4_WitnessStatus ==
    \E p \in procs : Fetched(p) /\ resp_seen[p].status = 500 /\ table0[p] # EmptyBag

\* C5: a run whose fetch returned an empty list, or whose normalization
\* returned no row, exits with status 0, no delete and no insert issued, the
\* table as it was when the run started.
C5_NothingToSync ==
    \A p \in procs :
        (/\ Fetched(p) /\ GoodResponse(p)
         /\ \/ raw_rows[p] = <<>>
            \/ /\ ~normalize_rows(raw_rows[p]).raised
               /\ normalize_rows(raw_rows[p]).rows = <<>>) =>
            /\ pc[p] = "NothingToSync"
            /\ exit_code[p] = 0
            /\ NoStorageCall(p)
            /\ table = table0[p]
C5_Witness ==
    \E p \in procs :
        /\ Fetched(p) /\ GoodResponse(p)
        /\ raw_rows[p] # <<>> /\ rows[p] = <<>> /\ exit_code[p] = 0
        /\ table0[p] # EmptyBag
C5_WitnessEmpty ==
    \E p \in procs :
        Fetched(p) /\ GoodResponse(p) /\ raw_rows[p] = <<>> /\ table0[p] # EmptyBag

\* the batch size the environment of p sets
ConfiguredBatch(p) == ToNat(env[p].BATCH_SIZE.v)

DateParses(row) ==
    /\ row["date"].t = "str"
    /\ fromisoformat(Replace(row["date"].v, "Z", <<"+", "0", "0", ":", "0", "0">>)).ok
RECURSIVE CountParsed(_)
CountParsed(raw) ==
    IF raw = <<>> THEN 0
    ELSE (IF DateParses(Head(raw)) THEN 1 ELSE 0) + CountParsed(Tail(raw))
\* the records of raw whose date parses, in input order
Parsed(raw) == SelectSeq(raw, DateParses)

\* C7: whatever the date of each record is, normalize_rows returns, with one
\* row for each record whose date parses, in input order, and none for the
\* others.
C7_DatePolicyTotal ==
    n_pc # "ready" =>
        /\ n_pc = "returned"
        /\ Len(n_out) = CountParsed(n_in)
        /\ \A k \in 1..Len(n_out) :
              n_out[k].warehouse_id = Get(Parsed(n_in)[k], "warehouseID")

\* the values of C8: an empty string, null, a missing key
EmptyNumeric == {PyStr(<<>>), None, Missing}

\* C8: a numeric field that is an empty string, null or missing is null in the
\* normalized row: never zero, never an exception.
C8_EmptyNumericIsNull ==
    (n_pc # "ready" /\ \A i \in 1..Len(n_in) : DateParses(n_in[i])) =>
        /\ n_pc = "returned"
        /\ Len(n_out) = Len(n_in)
        /\ \A i \in 1..Len(n_out) : \A f \in NumericFields :
              n_in[i][f[1]] \in EmptyNumeric => n_out[i][f[2]] = None
C8_Witness ==
    /\ n_pc = "returned"
    /\ Len(n_out) = 2
    /\ \E v \in EmptyNumeric : n_in[1]["storageBaseLiter"] = v
    /\ n_in[1]["coefficient"] = PyInt(<<"0">>)
    /\ n_out[1].coefficient = PyFloat(<<"0", ".", "0">>)

\* C9: a run whose insert of batch k raised is Failed with status 1, has
\* attempted no batch after k, and leaves the table holding exactly the rows of
\* batches 1..k-1 of this run.
C9_PartialTable ==
    \A p \in procs :
        err[p] = "StorageInsertFailed" =>
            /\ pc[p] = "Failed" /\ exit_code[p] = 1
            /\ Len(insert_sizes[p]) = batch_i[p]
            /\ table = BatchRows(p, 1, batch_i[p] - 1)

\* C10: with two invocations at once, when both have ended Done the table
\* holds the whole snapshot of one of them and, of the other, the batches from
\* some batch on (all, some or none of them): nothing keeps it to one snapshot.
C10_TwoRunsTable ==
    (\A p \in procs : pc[p] = "Done") =>
        \E p \in procs : \E q \in procs \ {p} : \E k \in 1..(NBatches(q) + 1) :
            table = BagOfSeq(rows[p]) (+) BatchRows(q, k, NBatches(q))
C10_Witness ==
    /\ \A p \in procs : pc[p] = "Done" /\ exit_code[p] = 0
    /\ \A p \in procs : table # BagOfSeq(rows[p])
    /\ \E r \in DOMAIN table : table[r] >= 2
C10_WitnessMix ==
    /\ \A p \in procs : pc[p] = "Done" /\ exit_code[p] = 0
    /\ \A p \in procs : table # BagOfSeq(rows[p])
    /\ table # BagOfSeq(rows[1]) (+) BagOfSeq(rows[2])

====
